---- MODULE Spec2Model ----
(***************************************************************************)
(* Job lifecycle of the dispatch center (tinfernew/server.py) and of the   *)
(* pull worker that polls it (tinfernew/worker.py).                        *)
(*                                                                         *)
(* The server is a FastAPI application on one asyncio event loop: a        *)
(* handler runs without interruption from one await to the next.  A        *)
(* handler that awaits send_telegram_message does nothing after it but     *)
(* return its response, so the send is part of the handler's step; the     *)
(* await on create_payment_qr, after which vtuber_command writes the job   *)
(* table, splits that handler in two steps.                                *)
(***************************************************************************)
EXTENDS Integers, Sequences, FiniteSets, Bags, TLC

(* ------------------------------ bounds ------------------------------- *)
\* uuids generated by vtuber_command over a run
MaxJobs == 2
\* update-task requests for stored jobs sent by clients other than worker.py
\* over a run
MaxForeign == 1

(* --------------------------- configuration --------------------------- *)
\* int(float(PRICE_AMOUNT) * 100) for the default PRICE_AMOUNT "0.99"
PRICE_AMOUNT == 99
GLOBEPAY_PARTNER_CODE == "PARTNER"
GLOBEPAY_CREDENTIAL == "credential"

(* ------------------------------ values ------------------------------- *)
\* Python's None, as a job id / chat id and as a prompt
None == 0
NoneStr == "None"

JobIds == 1..MaxJobs
\* ids a request may carry: those vtuber_command can generate and one it never does
RequestIds == 1..(MaxJobs + 1)
Workers == {"w1", "w2"}
Chats == {101, 102}
Prompts == {"", "cat"}

JobStatuses == {"AWAITING_PAYMENT", "PENDING", "RUNNING", "COMPLETED", "FAILED"}
\* TaskUpdateRequest.status is any str
RequestStatuses == JobStatuses \cup {"CANCELLED"}

VARIABLES
    JOBS,      \* the job table: a dict, i.e. the entries in insertion order
    uuids,     \* number of job ids generated so far
    orders,    \* vtuber_command handlers suspended in create_payment_qr
    outbox,    \* messages handed to the Telegram bot (a bag)
    workers,   \* each worker.py process: position in main() and its locals
    last,      \* the last handler step: request, log line and response
    handed,    \* history: how many times get_task returned each job id
    flips,     \* history: how many times payment_notify moved each job to PENDING
    wasPending,\* history: the job ids that have been PENDING
    foreign,   \* number of foreign update-task requests so far
    gateway    \* history: the job ids GlobePay has created a payment order for

vars == <<JOBS, uuids, orders, outbox, workers, last, handed, flips,
          wasPending, foreign, gateway>>

(* ------------------------- the job table ----------------------------- *)
Keys(J) == {J[i].job_id : i \in 1..Len(J)}

IndexOf(J, id) == CHOOSE i \in 1..Len(J) : J[i].job_id = id

\* JOBS.get(id), for an id that is a key
Get(J, id) == J[IndexOf(J, id)]

\* the status written on every entry of the table
SetStatusOfAll(J, id, s) == [i \in 1..Len(J) |-> [J[i] EXCEPT !.status = s]]

\* job["status"] = s on the entry of id
SetStatus(J, id, s) ==
    [i \in 1..Len(J) |-> IF J[i].job_id = id THEN [J[i] EXCEPT !.status = s] ELSE J[i]]

\* a job stored without the chat it came from
InsertWithoutOriginator(J, id, prompt, chat_id, status) ==
    Append(J, [job_id |-> id, prompt |-> prompt, chat_id |-> None, status |-> status])

\* JOBS[job_id] = {...} for a key not yet in the dict: appended last
Insert(J, id, prompt, chat_id, status) ==
    Append(J, [job_id |-> id, prompt |-> prompt, chat_id |-> chat_id, status |-> status])

StatusOf(J, id) == IF id \in Keys(J) THEN J[IndexOf(J, id)].status ELSE "absent"

PendingIds(J) == {J[i].job_id : i \in {k \in 1..Len(J) : J[k].status = "PENDING"}}

(* ----------------------------- messages ------------------------------ *)
Msg(chat_id, text, id) == [chat_id |-> chat_id, text |-> text, job_id |-> id]

Put(bag, x) == bag (+) SetToBag({x})

Step(op, id, code, body, log) ==
    [op |-> op, id |-> id, code |-> code, body |-> body, log |-> log]

\* what send_telegram_message logs: nothing, or the error it swallows
SendLog(delivered) == IF delivered THEN "" ELSE ";send_error"

\* send_telegram_message without its try/except
SendRaisesOnError(delivered) == ~delivered

\* whether send_telegram_message raises to the handler that awaits it: its
\* except clause logs every error of bot.send_message and returns
SendRaises(delivered) == FALSE

\* the status code of a handler that answers `code` unless the send raised
AfterSend(code, delivered) == IF SendRaises(delivered) THEN 500 ELSE code

\* the body that goes with it
BodyAfterSend(body, delivered) ==
    IF SendRaises(delivered) THEN [detail |-> "Internal Server Error"] ELSE body

NoBody == [none |-> TRUE]

\* a worker at the top of its loop, about to request a task
Polling == [pc |-> "poll", job_id |-> None]

(* ------------------------------ Init --------------------------------- *)
Init ==
    /\ JOBS = <<>>
    /\ uuids = 0
    /\ orders = {}
    /\ outbox = EmptyBag
    /\ workers = [w \in Workers |-> Polling]
    /\ last = Step("startup", None, 0, NoBody, "")
    /\ handed = [j \in JobIds |-> 0]
    /\ flips = [j \in JobIds |-> 0]
    /\ wasPending = {}
    /\ foreign = 0
    /\ gateway = {}


(* ------------------- chat side: /vtuber <description> ----------------- *)
\* the reply of update.message.reply_text
Reply(text) == [reply |-> text]

\* vtuber_command without its test of the prompt
PromptMissingNever(prompt) == FALSE

\* `if not prompt` of vtuber_command
PromptMissing(prompt) == prompt = ""

\* vtuber_command up to its return or to `await create_payment_qr(job_id)`
vtuber_command(chat_id, prompt) ==
    /\ IF PromptMissing(prompt)
       THEN /\ last' = Step("vtuber_command", None, 0, Reply("provide_description"), "empty")
            /\ UNCHANGED <<uuids, orders>>
       ELSE /\ uuids < MaxJobs
            /\ uuids' = uuids + 1
            /\ orders' = orders \cup
                 {[job_id |-> uuids + 1, prompt |-> prompt, chat_id |-> chat_id]}
            /\ last' = Step("vtuber_command", uuids + 1, 0, Reply("creating_order"),
                            "creating")
    /\ UNCHANGED <<JOBS, outbox, workers, handed, flips, wasPending, foreign, gateway>>

\* vtuber_command from the return of create_payment_qr (a code_url, or None on
\* any gateway failure) to its end
vtuber_order(o, qr_code_url) ==
    /\ o \in orders
    /\ orders' = orders \ {o}
    /\ IF qr_code_url # None
       THEN /\ JOBS' = Insert(JOBS, o.job_id, o.prompt, o.chat_id, "AWAITING_PAYMENT")
            /\ outbox' = Put(outbox, Msg(o.chat_id, "payment_qr", o.job_id))
            /\ last' = Step("vtuber_command", o.job_id, 0, NoBody, "order_created")
       ELSE /\ JOBS' = JOBS
            /\ outbox' = Put(outbox, Msg(o.chat_id, "order_failed", None))
            /\ last' = Step("vtuber_command", o.job_id, 0, NoBody, "order_failed")
    /\ UNCHANGED <<uuids, workers, handed, flips, wasPending, foreign>>

\* what the PUT of create_payment_qr comes back with: the HTTP status and the
\* result_code and code_url of the JSON body, or nothing when the request
\* times out or the connection breaks after it was sent
Answers ==
    [status : {200, 500}, result_code : {"SUCCESS", "FAIL"}, code_url : {None, 1},
     lost : BOOLEAN]

\* GlobePay has created the payment order exactly when it answers 200 with
\* result_code SUCCESS, whether or not the answer reaches the server
OrderCreated(answer) == answer.status = 200 /\ answer.result_code = "SUCCESS"

\* create_payment_qr without its test of result_code
create_payment_qr_unchecked(answer) ==
    IF answer.lost \/ answer.status # 200 THEN None ELSE answer.code_url

\* create_payment_qr: the code_url of a 200 answer with result_code SUCCESS,
\* None on every other answer and on every exception
create_payment_qr(answer) ==
    IF answer.lost THEN None
    ELSE IF answer.status # 200 THEN None
    ELSE IF answer.result_code = "SUCCESS" THEN answer.code_url
    ELSE None

\* vtuber_command from the PUT to GlobePay to its end
vtuber_payment(o, answer) ==
    /\ answer \in Answers
    /\ vtuber_order(o, create_payment_qr(answer))
    /\ gateway' = gateway \cup (IF OrderCreated(answer) THEN {o.job_id} ELSE {})

(* --------------------- GlobePay payment notification ----------------- *)
\* sha256 of "partner&time&nonce&credential": the digest stands for the string
\* it was computed from (no two of the strings used here collide)
generate_globepay_signature(partner_code, timestamp, nonce, credential) ==
    <<partner_code, timestamp, nonce, credential>>

\* the JSON objects a client can post to /api/payment-notify: any order id or
\* none, the full or half the price, a signature made with or without the secret
NotificationsFor(order_ids) ==
    [partner_order_id : order_ids,
     real_fee : {PRICE_AMOUNT, PRICE_AMOUNT \div 2},
     time : {1},
     nonce_str : {"n"},
     sign : {generate_globepay_signature(GLOBEPAY_PARTNER_CODE, 1, "n", c) :
               c \in {GLOBEPAY_CREDENTIAL, "guess"}}]

Notifications == NotificationsFor({None} \cup RequestIds)

Success == [result |-> "success"]

\* payment_notify without its status test
NotifyAdmitsAnyStatus(job) == TRUE

\* `if job["status"] == "AWAITING_PAYMENT"` of payment_notify
NotifyAdmits(job) == job.status = "AWAITING_PAYMENT"

\* payment_notify storing a PENDING job for an order id it does not know
payment_notify_upserts(J, order_id) ==
    IF order_id = None THEN J
    ELSE IF order_id \notin Keys(J) THEN Insert(J, order_id, NoneStr, None, "PENDING")
    ELSE IF NotifyAdmits(Get(J, order_id)) THEN SetStatus(J, order_id, "PENDING")
    ELSE J

\* the job table after payment_notify
payment_notify_jobs(J, order_id) ==
    IF order_id = None \/ order_id \notin Keys(J) THEN J
    ELSE IF NotifyAdmits(Get(J, order_id)) THEN SetStatus(J, order_id, "PENDING")
    ELSE J

\* payment_notify for a JSON object; the send is delivered or fails
payment_notify(n) ==
    /\ n \in Notifications
    /\ JOBS' = payment_notify_jobs(JOBS, n.partner_order_id)
    /\ LET order_id == n.partner_order_id
       IN  IF order_id = None
           THEN /\ last' = Step("payment_notify", order_id, 200, Success, "no_order_id")
                /\ UNCHANGED <<outbox, flips, wasPending>>
           ELSE IF order_id \notin Keys(JOBS)
           THEN /\ last' = Step("payment_notify", order_id, 200, Success, "non_existent")
                /\ UNCHANGED <<outbox, flips, wasPending>>
           ELSE IF NotifyAdmits(Get(JOBS, order_id))
           THEN /\ flips' = [flips EXCEPT ![order_id] = @ + 1]
                /\ wasPending' = wasPending \cup {order_id}
                /\ outbox' = Put(outbox, Msg(Get(JOBS, order_id).chat_id,
                                             "payment_successful", order_id))
                /\ \E delivered \in BOOLEAN :
                       last' = Step("payment_notify", order_id,
                                    AfterSend(200, delivered),
                                    BodyAfterSend(Success, delivered),
                                    "paid" \o SendLog(delivered))
           ELSE /\ last' = Step("payment_notify", order_id, 200, Success, "duplicate")
                /\ UNCHANGED <<outbox, flips, wasPending>>
    /\ UNCHANGED <<uuids, gateway, orders, workers, handed, foreign>>

\* payment_notify for a body that is not a JSON object: request.json() or
\* data.get raises, the except clause answers 500
payment_notify_malformed ==
    /\ last' = Step("payment_notify", None, 500, [detail |-> "Internal Server Error"],
                    "error")
    /\ UNCHANGED <<JOBS, uuids, gateway, orders, outbox, workers, handed, flips, wasPending,
                   foreign>>

(* ------------------------- worker endpoints -------------------------- *)
Sentinel == [job_id |-> None, prompt |-> NoneStr, chat_id |-> None]

\* a loop that stops at the first entry without testing its status
FirstEntry(J) == IF Len(J) > 0 THEN 1 ELSE 0

\* a loop that also stops at an entry that is RUNNING
FirstUnfinished(J) ==
    IF \E i \in 1..Len(J) : J[i].status \in {"PENDING", "RUNNING"}
    THEN CHOOSE i \in 1..Len(J) :
           /\ J[i].status \in {"PENDING", "RUNNING"}
           /\ \A k \in 1..(i - 1) : J[k].status \notin {"PENDING", "RUNNING"}
    ELSE 0

\* a loop that returns the sentinel as soon as the first entry is not PENDING
FirstPendingAtHead(J) == IF Len(J) > 0 /\ J[1].status = "PENDING" THEN 1 ELSE 0

\* a loop that keeps the last PENDING entry it meets
LastPending(J) ==
    IF \E i \in 1..Len(J) : J[i].status = "PENDING"
    THEN CHOOSE i \in 1..Len(J) :
           /\ J[i].status = "PENDING"
           /\ \A k \in (i + 1)..Len(J) : J[k].status # "PENDING"
    ELSE 0

\* the entry the loop of get_task stops at: the first one, in insertion order,
\* whose status is PENDING (0: the loop runs to its end)
FirstPending(J) ==
    IF \E i \in 1..Len(J) : J[i].status = "PENDING"
    THEN CHOOSE i \in 1..Len(J) :
           /\ J[i].status = "PENDING"
           /\ \A k \in 1..(i - 1) : J[k].status # "PENDING"
    ELSE 0

\* get_task that leaves the status of the entry it returns as it was
AssignedNotWritten == "PENDING"

\* the status get_task writes on the entry it returns
Assigned == "RUNNING"

\* the job table after get_task
get_task_jobs(J) ==
    IF FirstPending(J) = 0 THEN J ELSE [J EXCEPT ![FirstPending(J)].status = Assigned]

\* the response of get_task
get_task_response(J) ==
    IF FirstPending(J) = 0
    THEN Sentinel
    ELSE [job_id |-> J[FirstPending(J)].job_id,
          prompt |-> J[FirstPending(J)].prompt,
          chat_id |-> J[FirstPending(J)].chat_id]

\* get_task, run by the server for one request
get_task ==
    /\ JOBS' = get_task_jobs(JOBS)
    /\ handed' = IF FirstPending(JOBS) = 0 THEN handed
                 ELSE [handed EXCEPT ![JOBS[FirstPending(JOBS)].job_id] = @ + 1]
    /\ last' = Step("get_task", get_task_response(JOBS).job_id, 200,
                    get_task_response(JOBS),
                    IF FirstPending(JOBS) = 0 THEN "none" ELSE "assigned")
    /\ UNCHANGED <<uuids, gateway, orders, outbox, flips, wasPending>>

Updated == [message |-> "Task status updated"]

NotFound == [detail |-> "Task not found"]

\* `if not job: raise HTTPException(404)` of update_task
UpdateRejects(J, job_id, status) == job_id \notin Keys(J)

\* update_task writing the status before it looks the job up
update_task_upserts(J, job_id, status) ==
    IF job_id \in Keys(J) THEN SetStatus(J, job_id, status)
    ELSE Insert(J, job_id, NoneStr, None, status)

\* the job table after update_task
update_task_jobs(J, job_id, status) ==
    IF UpdateRejects(J, job_id, status) THEN J ELSE SetStatus(J, job_id, status)

\* the text update_task sends to the job's chat, if any
update_task_text(status) ==
    IF status = "COMPLETED" THEN "complete"
    ELSE IF status = "FAILED" THEN "failed"
    ELSE NoneStr

\* update_task for one request; the send is delivered or fails
update_task(job_id, status) ==
    /\ JOBS' = update_task_jobs(JOBS, job_id, status)
    /\ IF UpdateRejects(JOBS, job_id, status)
       THEN /\ last' = Step("update_task", job_id, 404, NotFound, "not_found")
            /\ UNCHANGED <<outbox, wasPending>>
       ELSE /\ wasPending' = wasPending \cup (IF status = "PENDING" THEN {job_id} ELSE {})
            /\ IF update_task_text(status) # NoneStr
               THEN /\ outbox' = Put(outbox, Msg(Get(JOBS, job_id).chat_id,
                                                 update_task_text(status), job_id))
                    /\ \E delivered \in BOOLEAN :
                           last' = Step("update_task", job_id,
                                        AfterSend(200, delivered),
                                        BodyAfterSend(Updated, delivered),
                                        status \o SendLog(delivered))
               ELSE /\ last' = Step("update_task", job_id, 200, Updated, status)
                    /\ UNCHANGED outbox
    /\ UNCHANGED <<uuids, gateway, orders, handed, flips>>

(* --------------------------- worker.py main -------------------------- *)
\* requests.get(.../api/get-task) and the branch on task.get("job_id"); the
\* response can be lost after the server ran the handler (timeout=15), which
\* raises RequestException and restarts the loop
worker_poll(w, received) ==
    /\ workers[w].pc = "poll"
    /\ get_task
    /\ workers' = IF received /\ get_task_response(JOBS).job_id # None
                  THEN [workers EXCEPT ![w] = [pc |-> "task",
                          job_id |-> get_task_response(JOBS).job_id]]
                  ELSE workers
    /\ UNCHANGED foreign

\* status_to_update as main computes it from run_textoon_locally's zip path
\* and serve_file_with_ngrok's url
status_to_update(zip_ok, url_ok) == IF zip_ok /\ url_ok THEN "COMPLETED" ELSE "FAILED"

\* public_url as main sends it in result_url: the download url, or None when
\* no zip file came out or no tunnel was made
public_url(zip_ok, url_ok) == IF zip_ok /\ url_ok THEN 1 ELSE None

\* the task's rendering (run_textoon_locally, then serve_file_with_ngrok when a
\* zip file came out) and requests.post(.../api/update-task); the response is
\* not looked at, and a request that fails in transport restarts the loop
worker_report(w, zip_ok, url_ok, arrived) ==
    /\ workers[w].pc = "task"
    /\ IF arrived
       THEN update_task(workers[w].job_id, status_to_update(zip_ok, url_ok))
       ELSE /\ last' = Step("worker_report", workers[w].job_id, 0, NoBody,
                            "RequestException")
            /\ UNCHANGED <<JOBS, uuids, gateway, orders, outbox, handed, flips,
                           wasPending>>
    /\ workers' = [workers EXCEPT ![w] = Polling]
    /\ UNCHANGED foreign

\* an iteration of main that leaves through `except Exception`: rmtree and
\* makedirs of run_textoon_locally, HTTPServer() of serve_file_with_ngrok and
\* ngrok.get_listeners()[0] are outside every try of their own, so what they
\* raise ends the iteration before requests.post and the loop starts again
worker_abandon(w) ==
    /\ workers[w].pc = "task"
    /\ last' = Step("worker_main", workers[w].job_id, 0, NoBody, "Exception")
    /\ workers' = [workers EXCEPT ![w] = Polling]
    /\ UNCHANGED <<JOBS, uuids, gateway, orders, outbox, handed, flips, wasPending,
                   foreign>>

\* the endpoint is unauthenticated: an update-task request from any other
\* client; those for a stored job are counted against MaxForeign
foreign_update_task(job_id, status) ==
    /\ job_id \in Keys(JOBS) => foreign < MaxForeign
    /\ foreign' = IF job_id \in Keys(JOBS) THEN foreign + 1 ELSE foreign
    /\ update_task(job_id, status)
    /\ UNCHANGED workers

(* --------------------------- specifications -------------------------- *)
\* the server with its chat users, the payment gateway and worker.py workers
WorkerNext ==
    \/ \E c \in Chats, p \in Prompts : vtuber_command(c, p)
    \/ \E o \in orders, answer \in Answers : vtuber_payment(o, answer)
    \/ \E n \in Notifications : payment_notify(n)
    \/ payment_notify_malformed
    \/ \E w \in Workers, r \in BOOLEAN : worker_poll(w, r)
    \/ \E w \in Workers, z \in BOOLEAN, u \in BOOLEAN, a \in BOOLEAN :
         worker_report(w, z, u, a)
    \/ \E w \in Workers : worker_abandon(w)

\* the same, with any other client of the open update-task endpoint
Next ==
    \/ WorkerNext
    \/ \E id \in RequestIds, s \in RequestStatuses : foreign_update_task(id, s)

Spec == Init /\ [][Next]_vars

WorkerSpec == Init /\ [][WorkerNext]_vars

\* worker.py's loop never ends: a worker that is polling sends its next
\* get-task after a sleep of at most 600 s, and a worker that holds a job
\* ends its rendering (subprocess timeout of 600 s) and sends its report
WorkersKeepGoing ==
    /\ WF_vars(\E w \in Workers, r \in BOOLEAN : worker_poll(w, r))
    /\ WF_vars(\E w \in Workers, z \in BOOLEAN, u \in BOOLEAN, a \in BOOLEAN :
                  worker_report(w, z, u, a))

FairWorkerSpec == WorkerSpec /\ WorkersKeepGoing


(* ============================ properties ============================= *)
RECURSIVE Total(_, _)
\* the sum of f over the set S of job ids
Total(f, S) == IF S = {} THEN 0
               ELSE LET j == CHOOSE x \in S : TRUE IN f[j] + Total(f, S \ {j})

\* the job a worker received from get_task and has not reported yet
Holds(w, j) == workers[w].pc = "task" /\ workers[w].job_id = j

\* how many times the Telegram bot was asked to send `text` about job j to chat c
Sent(c, text, j) == CopiesIn(Msg(c, text, j), outbox)

(* C1: whatever the interleaving of the get-task requests of the workers,   *)
(* each job goes PENDING -> RUNNING at most once and is returned to at most *)
(* one caller, and the get-task requests return no more jobs than have been *)
(* PENDING.                                                                 *)
C1_ClaimedOnce ==
    /\ \A j \in JobIds : handed[j] <= 1 /\ (handed[j] = 1 => j \in wasPending)
    /\ \A w1, w2 \in Workers, j \in JobIds : Holds(w1, j) /\ Holds(w2, j) => w1 = w2
    /\ Total(handed, JobIds) <= Cardinality(wasPending)

C1_PendingToRunningOnce ==
    \A j \in JobIds :
        StatusOf(JOBS, j) = "PENDING" /\ StatusOf(JOBS', j) = "RUNNING"
            => handed[j] = 0 /\ handed'[j] = 1

C1_AtMostOneClaim == []C1_ClaimedOnce /\ [][C1_PendingToRunningOnce]_vars

\* both workers polled while two jobs were PENDING: each holds a job of its own
C1_Witness ==
    /\ Holds("w1", 1) /\ Holds("w2", 2)
    /\ Total(handed, JobIds) = 2 /\ Cardinality(wasPending) = 2


(* --------------------------------------------------------------------- *)
\* the transition graph of a job's status
LegalEdges ==
    {<<"AWAITING_PAYMENT", "PENDING">>, <<"PENDING", "RUNNING">>,
     <<"RUNNING", "COMPLETED">>, <<"RUNNING", "FAILED">>}

SameStatuses == \A j \in JobIds : StatusOf(JOBS', j) = StatusOf(JOBS, j)

C2_LegalStep ==
    \A j \in Keys(JOBS) :
        StatusOf(JOBS', j) # StatusOf(JOBS, j)
            => <<StatusOf(JOBS, j), StatusOf(JOBS', j)>> \in LegalEdges

C2_IllegalUpdateRejected ==
    last'.op = "update_task" =>
        \A id \in Keys(JOBS), s \in RequestStatuses :
            /\ update_task(id, s)
            /\ s \notin {"COMPLETED", "FAILED"} \/ <<StatusOf(JOBS, id), s>> \notin LegalEdges
            => last'.code # 200 /\ SameStatuses

(* C2: every change of a job's status is one of the four legal edges, and   *)
(* an update-task request whose status is not COMPLETED or FAILED, or is    *)
(* not a legal successor of the job's status, is rejected and changes no    *)
(* status.                                                                  *)
C2_OnlyLegalEdges == [][C2_LegalStep /\ C2_IllegalUpdateRejected]_vars

(* C3: once a job is COMPLETED or FAILED, no step changes its status or any *)
(* other field of it.                                                       *)
C3_TerminalFrozen ==
    [][\A i \in 1..Len(JOBS) :
          JOBS[i].status \in {"COMPLETED", "FAILED"}
              => Len(JOBS') >= i /\ JOBS'[i] = JOBS[i]]_vars

(* C4: a job has left AWAITING_PAYMENT (or was handed out by get-task) only *)
(* if a payment notification for it moved it to PENDING before.             *)
C4_LeftAwaitingOnlyByPayment ==
    \A j \in JobIds :
        handed[j] > 0 \/ StatusOf(JOBS, j) \notin {"absent", "AWAITING_PAYMENT"}
            => flips[j] > 0

\* the notification carries the signature computed over its fields with the
\* shared secret
SignatureMatches(n) ==
    n.sign = generate_globepay_signature(GLOBEPAY_PARTNER_CODE, n.time, n.nonce_str,
                                         GLOBEPAY_CREDENTIAL)

(* C5: a payment notification whose signature does not match is answered    *)
(* 400 and changes no job's status.                                         *)
C5_ForgedRejected ==
    [][last'.op = "payment_notify" =>
          \A n \in Notifications :
              payment_notify(n) /\ ~SignatureMatches(n)
                  => last'.code = 400 /\ SameStatuses]_vars

(* C6: a correctly signed payment notification whose amount is not the      *)
(* expected one is acknowledged with success and changes no job's status.   *)
C6_WrongAmountIgnored ==
    [][last'.op = "payment_notify" =>
          \A n \in Notifications :
              payment_notify(n) /\ SignatureMatches(n) /\ n.real_fee # PRICE_AMOUNT
                  => last'.code = 200 /\ last'.body = Success /\ SameStatuses]_vars

\* this step is payment_notify for a stored job
NotifyStepFor(j) == last'.op = "payment_notify" /\ last'.id = j /\ j \in Keys(JOBS)

C7_DuplicateIsNoOp ==
    \A j \in JobIds :
        NotifyStepFor(j) /\ StatusOf(JOBS, j) # "AWAITING_PAYMENT"
            => /\ last'.code = 200 /\ last'.body = Success
               /\ JOBS' = JOBS /\ outbox' = outbox /\ flips' = flips

C7_FirstDeliveryFlips ==
    \A j \in JobIds :
        NotifyStepFor(j) /\ StatusOf(JOBS, j) = "AWAITING_PAYMENT"
            => /\ last'.code = 200 /\ last'.body = Success
               /\ StatusOf(JOBS', j) = "PENDING" /\ flips'[j] = 1
               /\ outbox' = outbox (+)
                    SetToBag({Msg(Get(JOBS, j).chat_id, "payment_successful", j)})

C7_FlippedOnce ==
    \A j \in Keys(JOBS) :
        /\ flips[j] <= 1
        /\ StatusOf(JOBS, j) # "AWAITING_PAYMENT" => flips[j] = 1
        /\ \A c \in Chats :
              Sent(c, "payment_successful", j) =
                  IF c = Get(JOBS, j).chat_id THEN flips[j] ELSE 0

(* C7: a payment notification for a job that is not AWAITING_PAYMENT is     *)
(* acknowledged with success, changes no job and sends nothing; one for a   *)
(* job that is AWAITING_PAYMENT moves it to PENDING and sends its chat one  *)
(* payment-success message; so however often and in whatever order the      *)
(* notifications of a job are handled, the job is moved to PENDING once and *)
(* its chat is sent one payment-success message.                            *)
C7_Idempotent ==
    []C7_FlippedOnce /\ [][C7_DuplicateIsNoOp /\ C7_FirstDeliveryFlips]_vars

\* the notification of job 1 was handled a second time
C7_Witness ==
    /\ last = Step("payment_notify", 1, 200, Success, "duplicate")
    /\ StatusOf(JOBS, 1) = "PENDING" /\ flips[1] = 1
    /\ Sent(Get(JOBS, 1).chat_id, "payment_successful", 1) = 1

(* C8: a job that get-task has handed out is not returned by a later        *)
(* get-task call.                                                           *)
C8_NeverReoffered ==
    [][\A j \in JobIds : handed[j] >= 1 => handed'[j] = handed[j]]_vars

C9_GetTaskStep ==
    last'.op = "get_task" =>
        /\ last'.code = 200
        /\ IF PendingIds(JOBS) # {}
           THEN /\ last'.body.job_id \in PendingIds(JOBS)
                /\ last'.body = [job_id |-> last'.body.job_id,
                                 prompt |-> Get(JOBS, last'.body.job_id).prompt,
                                 chat_id |-> Get(JOBS, last'.body.job_id).chat_id]
                /\ JOBS' = SetStatus(JOBS, last'.body.job_id, "RUNNING")
           ELSE last'.body = Sentinel /\ JOBS' = JOBS

C9_SecondOfTwo ==
    /\ last.op = "get_task" /\ last.log = "assigned" /\ PendingIds(JOBS) = {}
    /\ last'.op = "get_task"
    => last'.body = Sentinel

(* C9: get-task returns a PENDING job (id, prompt, chat_id), made RUNNING,  *)
(* whenever one is PENDING and otherwise the all-null sentinel with no job  *)
(* changed; so of two get-task calls handled one after the other while one  *)
(* job is PENDING, the first gets the job and the second the sentinel.      *)
C9_JobOrSentinel == [][C9_GetTaskStep /\ C9_SecondOfTwo]_vars

\* one job was PENDING and both workers polled: one holds it, the other was
\* answered the sentinel
C9_Witness ==
    /\ \E w1, w2 \in Workers : Holds(w1, 1) /\ workers[w2].pc = "poll"
    /\ last = Step("get_task", None, 200, Sentinel, "none")
    /\ wasPending = {1} /\ Total(handed, JobIds) = 1

(* C10: update-task for an id that is not in the job table answers 404      *)
(* whatever the status it asks for, sends nothing and leaves the job table  *)
(* as it was.                                                               *)
C10_UnknownIdNotFound ==
    [][last'.op = "update_task" =>
          \A id \in RequestIds \ Keys(JOBS), s \in RequestStatuses :
              update_task(id, s)
                  => /\ last'.code = 404 /\ last'.body = NotFound
                     /\ JOBS' = JOBS /\ outbox' = outbox]_vars

\* update-task was answered 404 for the id no command ever generated
C10_Witness ==
    /\ last = Step("update_task", MaxJobs + 1, 404, NotFound, "not_found")
    /\ Len(JOBS) > 0

\* the terminal statuses a report can carry
Terminal == {"COMPLETED", "FAILED"}

\* the step is payment_notify flipping job j with its send failing
NotifySendFailed(j) ==
    last'.op = "payment_notify" /\ last'.id = j /\ last'.log = "paid;send_error"

\* the step is update_task writing the terminal status s on job j with its
\* send failing
UpdateSendFailed(j, s) ==
    last'.op = "update_task" /\ last'.id = j /\ last'.log = s \o ";send_error"

(* C11: when the message of payment-notify or of update-task cannot be      *)
(* delivered, the request still answers its success response, the job has   *)
(* the status the request wrote (PENDING, or the reported terminal status),  *)
(* and send_telegram_message was called once, not again.                     *)
C11_SendErrorSwallowed ==
    [][\A j \in Keys(JOBS) :
          /\ NotifySendFailed(j)
                => /\ last'.code = 200 /\ last'.body = Success
                   /\ StatusOf(JOBS', j) = "PENDING"
                   /\ outbox' = outbox (+) SetToBag({Msg(Get(JOBS, j).chat_id,
                                                         "payment_successful", j)})
          /\ \A s \in Terminal :
                UpdateSendFailed(j, s)
                   => /\ last'.code = 200 /\ last'.body = Updated
                      /\ StatusOf(JOBS', j) = s
                      /\ outbox' = outbox (+) SetToBag({Msg(Get(JOBS, j).chat_id,
                                                            update_task_text(s), j)})]_vars

\* the completion message of job 1 could not be delivered: the report was
\* answered 200 and the job is COMPLETED
C11_Witness ==
    /\ last = Step("update_task", 1, 200, Updated, "COMPLETED;send_error")
    /\ StatusOf(JOBS, 1) = "COMPLETED"
    /\ Sent(Get(JOBS, 1).chat_id, "complete", 1) = 1

(* C12: the job-creation command with an empty argument text replies with   *)
(* the validation message and changes nothing: no job is added, no job is   *)
(* modified, no payment order is requested and no id is generated.          *)
C12_EmptyPromptNoChange ==
    [][last'.op = "vtuber_command" =>
          \A c \in Chats :
              vtuber_command(c, "")
                  => /\ last'.body = Reply("provide_description")
                     /\ JOBS' = JOBS /\ orders' = orders /\ uuids' = uuids
                     /\ outbox' = outbox]_vars

\* the command came without text while a job was stored and a payment order
\* was being created
C12_Witness ==
    /\ last = Step("vtuber_command", None, 0, Reply("provide_description"), "empty")
    /\ Len(JOBS) > 0 /\ orders # {}

\* the ids whose vtuber_command has run to its end
Finished == {j \in 1..uuids : \A o \in orders : o.job_id # j}

Stores(o) ==
    /\ Len(JOBS') = Len(JOBS) + 1
    /\ SubSeq(JOBS', 1, Len(JOBS)) = JOBS
    /\ o.job_id \notin Keys(JOBS)
    /\ JOBS'[Len(JOBS')].job_id = o.job_id
    /\ JOBS'[Len(JOBS')].prompt = o.prompt
    /\ JOBS'[Len(JOBS')].chat_id = o.chat_id
    /\ JOBS'[Len(JOBS')].status \in {"AWAITING_PAYMENT", "PENDING"}

\* the command with a text generates an id no stored job has and replies
C13_CommandStep ==
    \A c \in Chats, p \in Prompts \ {""} :
        vtuber_command(c, p)
            => /\ last'.id \notin Keys(JOBS) /\ last'.id \notin Finished
               /\ [job_id |-> last'.id, prompt |-> p, chat_id |-> c] \in orders' \ orders
               /\ last'.body = Reply("creating_order")

\* the command ends by storing the job and sending the QR code when the
\* payment order was created, and by the failure message alone when not
C13_OrderStep ==
    \A o \in orders :
        /\ vtuber_order(o, 1)
              => /\ Stores(o)
                 /\ outbox' = outbox (+) SetToBag({Msg(o.chat_id, "payment_qr", o.job_id)})
        /\ vtuber_order(o, None)
              => /\ JOBS' = JOBS
                 /\ outbox' = outbox (+) SetToBag({Msg(o.chat_id, "order_failed", None)})

C14_FieldsKept ==
    \A i \in 1..Len(JOBS) :
        /\ Len(JOBS') >= i
        /\ JOBS'[i].job_id = JOBS[i].job_id
        /\ JOBS'[i].prompt = JOBS[i].prompt
        /\ JOBS'[i].chat_id = JOBS[i].chat_id

\* the three endpoints add no job and change at most one
C14_AtMostOneStatus ==
    last'.op \in {"payment_notify", "get_task", "update_task"}
        => /\ Len(JOBS') = Len(JOBS)
           /\ Cardinality({i \in 1..Len(JOBS) : JOBS'[i] # JOBS[i]}) <= 1

(* C14: no operation removes a job or changes a stored job's prompt or      *)
(* chat_id; payment-notify, get-task and update-task change at most the     *)
(* status of one job and leave every other job and every other field as is. *)
C14_OnlyOneStatusChanges == [][C14_FieldsKept /\ C14_AtMostOneStatus]_vars

\* a report set the second job FAILED while the first still awaits payment,
\* each with the prompt of its command
C14_Witness ==
    /\ Len(JOBS) = 2
    /\ last.op = "update_task" /\ last.code = 200 /\ last.id = JOBS[2].job_id
    /\ JOBS[1].status = "AWAITING_PAYMENT" /\ JOBS[2].status = "FAILED"
    /\ JOBS[1].prompt = "cat" /\ JOBS[1].chat_id # JOBS[2].chat_id

(* C15: a RUNNING job stays RUNNING, and is not handed out again, on every  *)
(* step that is not an update-task request for that job: chat commands,     *)
(* payment notifications, get-task and update-task for other ids leave it.  *)
C15_RunningStays ==
    [][\A j \in Keys(JOBS) :
          StatusOf(JOBS, j) = "RUNNING" /\ ~(last'.op = "update_task" /\ last'.id = j)
              => StatusOf(JOBS', j) = "RUNNING" /\ handed'[j] = handed[j]]_vars

\* the answer that carried job 1 was lost: no worker holds it, it is RUNNING
\* and a later get-task was answered the sentinel
C15_Witness ==
    /\ StatusOf(JOBS, 1) = "RUNNING" /\ handed[1] = 1
    /\ \A w \in Workers : workers[w].pc = "poll"
    /\ last = Step("get_task", None, 200, Sentinel, "none")

(* C16: after an update-task request that failed in transport the worker    *)
(* still holds the job it claimed, to send the report for that job again.   *)
C16_ReportRetried ==
    [][\A w \in Workers :
          /\ workers[w].pc = "task"
          /\ last'.op = "worker_report" /\ last'.log = "RequestException"
          /\ last'.id = workers[w].job_id
          => workers'[w] = workers[w]]_vars

(* C17: a payment notification without partner_order_id, or with one that   *)
(* matches no stored job, is answered {result: success}, changes no job,    *)
(* creates no job and sends no message.                                     *)
C17_UnknownOrderIgnored ==
    [][last'.op = "payment_notify" /\ (last'.id = None \/ last'.id \notin Keys(JOBS)) =>
          \A n \in NotificationsFor({last'.id}) :
              payment_notify(n)
              => /\ last'.code = 200 /\ last'.body = Success
                 /\ JOBS' = JOBS /\ outbox' = outbox]_vars

\* a notification for the id no command ever generated was acknowledged
C17_Witness ==
    /\ last = Step("payment_notify", MaxJobs + 1, 200, Success, "non_existent")
    /\ Len(JOBS) > 0

\* the terminal messages sent about job j
TerminalSent(j) ==
    Sent(Get(JOBS, j).chat_id, "complete", j) + Sent(Get(JOBS, j).chat_id, "failed", j)

(* C18: whatever update-task requests arrive, the originator of a job is    *)
(* sent at most one terminal (completed or failed) message about it.        *)
C18_OneTerminalMessage == \A j \in Keys(JOBS) : TerminalSent(j) <= 1

(* C19: when the workers keep sending get-task and report only COMPLETED or *)
(* FAILED, every job that is PENDING is eventually returned by a get-task   *)
(* call, whatever other jobs are created or paid meanwhile.                 *)
C19_PendingClaimed ==
    \A j \in JobIds : (StatusOf(JOBS, j) = "PENDING") ~> (handed[j] >= 1)

\* the job stored second was handed out after the job stored first
C19_Witness ==
    /\ Len(JOBS) = 2
    /\ last.op = "get_task" /\ last.log = "assigned" /\ last.id = JOBS[2].job_id
    /\ handed[JOBS[1].job_id] = 1 /\ handed[JOBS[2].job_id] = 1

(* C20: when several jobs are PENDING, get-task returns the one that was    *)
(* inserted into the job table first, whatever the order of the payments.   *)
C20_EarliestPending ==
    [][last'.op = "get_task" /\ PendingIds(JOBS) # {} =>
          \E i \in 1..Len(JOBS) :
              /\ JOBS[i].job_id = last'.body.job_id
              /\ JOBS[i].status = "PENDING"
              /\ \A k \in 1..(i - 1) : JOBS[k].status # "PENDING"]_vars

\* the job of the second command was stored first; both were PENDING and
\* get-task returned it, the other is still PENDING
C20_Witness ==
    /\ Len(JOBS) = 2 /\ JOBS[1].job_id = 2 /\ JOBS[2].job_id = 1
    /\ last.op = "get_task" /\ last.id = 2
    /\ JOBS[1].status = "RUNNING" /\ JOBS[2].status = "PENDING"
    /\ Total(handed, JobIds) = 1

\* every stored job has a payment order at GlobePay
C21_StoredHasOrder == Keys(JOBS) \subseteq gateway

\* when GlobePay did not create the order the command stores nothing, changes
\* no job and sends the failure message
C21_FailureStep ==
    \A o \in orders, answer \in Answers :
        vtuber_payment(o, answer) /\ ~OrderCreated(answer)
            => /\ JOBS' = JOBS
               /\ outbox' = outbox (+) SetToBag({Msg(o.chat_id, "order_failed", None)})

(* C21: a job is inserted only after GlobePay has created its payment       *)
(* order: when the creation fails no job is stored, no stored job changes   *)
(* and the originator is sent the failure message; so every stored job has  *)
(* a payment order at the gateway.                                          *)
C21_OrderBeforeJob ==
    []C21_StoredHasOrder /\ [][last'.op = "vtuber_command" => C21_FailureStep]_vars

\* GlobePay refused the order of the first command after the job of the
\* second one was stored: the table holds job 2 alone, unchanged
C21_Witness ==
    /\ last = Step("vtuber_command", 1, 0, NoBody, "order_failed")
    /\ Keys(JOBS) = {2} /\ gateway = {2}
    /\ StatusOf(JOBS, 2) = "AWAITING_PAYMENT"
    /\ \E c \in Chats : Sent(c, "order_failed", None) = 1

\* the report is COMPLETED with a result_url exactly when the rendering gave
\* a zip file and the tunnel a url, and FAILED with none otherwise
C22_StatusOfReport ==
    \A z \in BOOLEAN, u \in BOOLEAN :
        /\ status_to_update(z, u) = (IF z /\ u THEN "COMPLETED" ELSE "FAILED")
        /\ (status_to_update(z, u) = "COMPLETED") = (public_url(z, u) # None)

\* a worker that held a job is polling again only after it sent the
\* update-task request for that job
C22_ReportThenPoll ==
    \A w \in Workers :
        workers[w].pc = "task" /\ workers'[w].pc = "poll"
            => /\ last'.op \in {"update_task", "worker_report"}
               /\ last'.id = workers[w].job_id

(* C22: for each task a worker fetches it sends one update-task request,    *)
(* COMPLETED with a result_url when the rendering succeeded and a download  *)
(* url was obtained and FAILED with a null result_url in every other case,  *)
(* and it sends no get-task before that report.                             *)
C22_OneReportPerTask == [][C22_StatusOfReport /\ C22_ReportThenPoll]_vars

====
